---- MODULE Spec2Model ----
(***************************************************************************)
(* Advanced E-commerce Product Scraper: the crawl loop of                  *)
(* ProductScraper.scrape_products, the run of main around it, the sink of  *)
(* utils and the extraction functions of parser, as a state machine.       *)
(***************************************************************************)
EXTENDS Integers, Sequences, FiniteSets, TLC

(***************************************************************************)
(* Values.  A text is a sequence of one-character strings; a float is a   *)
(* pair <<n, k>> standing for n / 10^k, kept normalised (k = 0 or n not a  *)
(* multiple of 10).  A value that may be Python's None is None or Some(v). *)
(***************************************************************************)
None == <<>>

Some(v) == <<v>>

Val(o) == o[1]

Digits == <<"0", "1", "2", "3", "4", "5", "6", "7", "8", "9">>

IsDigit(c) == \E i \in 1..10 : Digits[i] = c

DigitVal(c) == (CHOOSE i \in 1..10 : Digits[i] = c) - 1

IsSpace(c) == c \in {" ", "\t", "\n"}

\* 10^j
Pow10(j) == LET P[i \in 0..j] == IF i = 0 THEN 1 ELSE 10 * P[i - 1] IN P[j]

\* n / 10^k with the trailing zeros of the fraction dropped.
Normalise(n, k) ==
    LET j == CHOOSE j \in 0..k :
                 /\ n % Pow10(j) = 0
                 /\ \A m \in (j + 1)..k : n % Pow10(m) # 0
    IN  <<n \div Pow10(j), k - j>>

\* The number a sequence of digits denotes.
DigitsValue(s) ==
    LET V[i \in 0..Len(s)] == IF i = 0 THEN 0 ELSE 10 * V[i - 1] + DigitVal(s[i])
    IN  V[Len(s)]

AllDigits(s) == \A i \in 1..Len(s) : IsDigit(s[i])

\* s without its characters that are in the set drop.
Remove(s, drop) ==
    LET R[i \in 0..Len(s)] ==
            IF i = 0 THEN <<>>
            ELSE IF s[i] \in drop THEN R[i - 1] ELSE Append(R[i - 1], s[i])
    IN  R[Len(s)]

\* str.strip(): leading and trailing whitespace removed.
Strip(s) ==
    LET kept  == {i \in 1..Len(s) : ~IsSpace(s[i])}
        first == CHOOSE i \in kept : \A j \in kept : i <= j
        final == CHOOSE i \in kept : \A j \in kept : j <= i
    IN  IF kept = {} THEN <<>> ELSE SubSeq(s, first, final)

\* str.lower() on the letters the model's texts use.
LowerChar(c) ==
    CASE c = "F" -> "f" [] c = "R" -> "r" [] c = "E" -> "e"
      [] c = "N" -> "n" [] c = "A" -> "a" [] c = "I" -> "i" [] OTHER -> c

Lower(s) == [i \in 1..Len(s) |-> LowerChar(s[i])]

\* Index of the first character of s that is in the set cs, 0 if none.
FirstIndex(s, cs) ==
    IF \E i \in 1..Len(s) : s[i] \in cs
    THEN CHOOSE i \in 1..Len(s) : s[i] \in cs /\ \A j \in 1..(i - 1) : s[j] \notin cs
    ELSE 0

DigitSet == {Digits[i] : i \in 1..10}

\* Length of the maximal run of digits of s starting at index i.
DigitRun(s, i) ==
    IF i < 1 \/ i > Len(s) THEN 0
    ELSE LET stops == {j \in i..Len(s) : ~IsDigit(s[j])}
         IN  IF stops = {} THEN Len(s) - i + 1
             ELSE (CHOOSE j \in stops : \A m \in stops : j <= m) - i

(***************************************************************************)
(* utils.clean_price                                                       *)
(***************************************************************************)
\* float(text): an optional sign, digits with at most one point and at
\* least one digit; anything else raises ValueError (the model value None).
\* float() also accepts, in any letter case, "nan", "inf" and "infinity";
\* the first two are modelled.  Exponents, "infinity", digit underscores and
\* digits outside ASCII need characters the model's texts do not combine.
NaN == <<"nan">>

Infinity == <<"inf", "+", "float">>

NegInfinity == <<"inf", "-", "float">>

IsDecimal(v) == Len(v) = 2

\* The digits ip before and fp after the point.
FloatDigits(ip, fp) ==
    IF AllDigits(ip) /\ AllDigits(fp) /\ Len(ip) + Len(fp) > 0
    THEN Some(Normalise(DigitsValue(ip \o fp), Len(fp)))
    ELSE None

\* An unsigned text u whose first point, if any, is at index dot.
FloatSplit(u, dot) ==
    IF dot = 0 THEN FloatDigits(u, <<>>)
    ELSE FloatDigits(SubSeq(u, 1, dot - 1), SubSeq(u, dot + 1, Len(u)))

FloatUnsigned(u) ==
    IF Lower(u) = <<"n", "a", "n">> THEN Some(NaN)
    ELSE IF Lower(u) = <<"i", "n", "f">> THEN Some(Infinity)
    ELSE FloatSplit(u, FirstIndex(u, {"."}))

FloatNegate(v) ==
    IF v = None THEN None
    ELSE IF ~IsDecimal(Val(v)) THEN (IF Len(Val(v)) = 1 THEN Some(NaN) ELSE Some(NegInfinity))
    ELSE Some(<<0 - Val(v)[1], Val(v)[2]>>)

FloatSigned(t) ==
    IF t = <<>> THEN None
    ELSE IF Head(t) = "-" THEN FloatNegate(FloatUnsigned(Tail(t)))
    ELSE IF Head(t) = "+" THEN FloatUnsigned(Tail(t))
    ELSE FloatUnsigned(t)

ParseFloat(s) == FloatSigned(Strip(s))

\* re.sub(r"[$,£€]|\s|,|", "", s): the characters it deletes.
PriceNoise == {"$", ",", "£", "€", " ", "\t", "\n"}

\* if '-' in cleaned: cleaned = cleaned.split('-')[0]
\* dash is the index of the first '-' of cleaned, 0 if there is none.
LowerOfRange(cleaned, dash) ==
    IF dash = 0 THEN cleaned ELSE SubSeq(cleaned, 1, dash - 1)

\* if cleaned.lower() == 'free': return 0.0; else float(cleaned)
FreeOrFloat(cleaned) ==
    IF Lower(cleaned) = <<"f", "r", "e", "e">> THEN Some(<<0, 0>>)
    ELSE ParseFloat(cleaned)

\* clean_price after the re.sub
PriceOfCleaned(cleaned) ==
    FreeOrFloat(LowerOfRange(cleaned, FirstIndex(cleaned, {"-"})))

clean_price(price_str) ==
    IF price_str = None THEN None
    ELSE PriceOfCleaned(Remove(Strip(Val(price_str)), PriceNoise))

(***************************************************************************)
(* parser: rating and review-count extraction                              *)
(***************************************************************************)
\* re.search(r"(\d+(\.\d+)?)", rating_str) and float(group(1)).
\* Index of the last character of the match of \d+(\.\d+)? whose integer
\* digits end just before index j of s.
RatingMatchEnd(s, j) ==
    IF j < Len(s) /\ s[j] = "." /\ DigitRun(s, j + 1) > 0
    THEN j + DigitRun(s, j + 1)
    ELSE j - 1

\* The match starts at the first digit of s, at index i (0: no match).
RatingMatch(s, i) ==
    IF i = 0 THEN None
    ELSE ParseFloat(SubSeq(s, i, RatingMatchEnd(s, i + DigitRun(s, i))))

extract_rating(rating_str) ==
    IF rating_str = None \/ rating_str = Some(<<>>) THEN None
    ELSE RatingMatch(Val(rating_str), FirstIndex(Val(rating_str), DigitSet))

\* Whether a ",ddd" group starts at index i of s.
GroupAt(s, i) ==
    /\ i >= 1 /\ i + 3 <= Len(s)
    /\ s[i] = "," /\ IsDigit(s[i + 1]) /\ IsDigit(s[i + 2]) /\ IsDigit(s[i + 3])

\* Number of ",ddd" groups matched by (?:,\d{3})* from index i on.
CommaGroups(s, i) ==
    CHOOSE g \in 0..Len(s) :
        /\ \A m \in 0..(g - 1) : GroupAt(s, i + 4 * m)
        /\ ~GroupAt(s, i + 4 * g)

Min(a, b) == IF a < b THEN a ELSE b

\* re.search(r"(\d{1,3}(?:,\d{3})*|\d+)", reviews_str) and
\* int(group(1).replace(",", "")).  The first alternative matches at the
\* first digit whenever the second would, so the second is never taken.
\* The match of \d{1,3}(?:,\d{3})* at index i of s, n digits first.
ReviewsGroup(s, i, n) == SubSeq(s, i, i + n + 4 * CommaGroups(s, i + n) - 1)

\* The match starts at the first digit of s, at index i (0: no match).
ReviewsMatch(s, i) ==
    IF i = 0 THEN None
    ELSE Some(DigitsValue(Remove(ReviewsGroup(s, i, Min(3, DigitRun(s, i))), {","})))

extract_reviews(reviews_str) ==
    IF reviews_str = None \/ reviews_str = Some(<<>>) THEN None
    ELSE ReviewsMatch(Val(reviews_str), FirstIndex(Val(reviews_str), DigitSet))

(***************************************************************************)
(* config                                                                  *)
(***************************************************************************)
BASE_URL == "https://www.example-ecommerce.com"

CATEGORY_PATH == "/electronics/laptops"

\* The href of the link to the second listing page, and hrefs of products.
PAGE2_PATH == "/electronics/laptops?page=2"

AbsoluteHrefs == {"https://cdn.example.net/p/9"}

\* Seconds between the resolution of a next link and the next fetch.
REQUEST_DELAY == 3

\* An href urlsplit rejects ("Invalid IPv6 URL").
BadHref == "http://[bad"

\* What a call that raises yields in the model: urljoin yields strings,
\* find_next_page_url yields None or Some(url).
ValueError == "ValueError: Invalid IPv6 URL"

Raised == <<"raise", ValueError>>

\* urllib.parse.urljoin(base, href) on absolute-path and absolute hrefs.
urljoin(base, href) ==
    IF href = BadHref THEN ValueError
    ELSE IF href \in AbsoluteHrefs THEN href
    ELSE IF href = "" THEN base
    ELSE base \o href

_get_full_url(path) == urljoin(BASE_URL, path)

(***************************************************************************)
(* parser.parse_product_listings and parser.find_next_page_url.  An HTML   *)
(* document is modelled by what the selectors see of it: the sequence of   *)
(* div.product-item containers in document order, each with the text of    *)
(* its name, price, rating and reviews elements and the href of its title  *)
(* link (None where the element is missing), the href of the               *)
(* a.pagination-next[href] element, and whether the text "no results"      *)
(* occurs in the source.                                                   *)
(***************************************************************************)
\* The record of one container: Some(product_info), or None when the
\* container is skipped (name or URL missing, or an exception was caught).
parse_container(c, now) ==
    LET name         == IF c.title = None THEN None ELSE Some(Strip(Val(c.title)))
        price        == clean_price(IF c.price = None THEN None
                                    ELSE Some(Strip(Val(c.price))))
        rating       == extract_rating(IF c.rating = None THEN None
                                       ELSE Some(Strip(Val(c.rating))))
        reviews      == extract_reviews(IF c.reviews = None THEN None
                                        ELSE Some(Strip(Val(c.reviews))))
        relative_url == c.href
        absolute_url == IF relative_url = None \/ relative_url = Some("") THEN None
                        ELSE Some(urljoin(BASE_URL, Val(relative_url)))
    IN  IF absolute_url # None /\ Val(absolute_url) = ValueError THEN None
        ELSE IF name # None /\ name # Some(<<>>) /\ absolute_url # None
             THEN Some([name |-> Val(name), price |-> price, rating |-> rating,
                        reviews |-> reviews, url |-> Val(absolute_url),
                        scraped_timestamp |-> now])
             ELSE None

\* Mutant: the try block around the whole loop, so that the first skipped
\* container ends the page.
parse_containers_abort(cs, now) ==
    LET skipped == {i \in 1..Len(cs) : parse_container(cs[i], now) = None}
        n == IF skipped = {} THEN Len(cs)
             ELSE (CHOOSE i \in skipped : \A j \in skipped : i <= j) - 1
        products_data[i \in 0..n] ==
            IF i = 0 THEN <<>>
            ELSE products_data[i - 1] \o parse_container(cs[i], now)
    IN  products_data[n]

\* for container in product_containers: products_data after each container.
parse_containers(cs, now) ==
    LET products_data[i \in 0..Len(cs)] ==
            IF i = 0 THEN <<>>
            ELSE products_data[i - 1] \o parse_container(cs[i], now)
    IN  products_data[Len(cs)]

parse_product_listings(html_content, now) ==
    IF html_content.containers = <<>> THEN <<>>
    ELSE parse_containers(html_content.containers, now)

\* None, Some(absolute url), or Raised when urljoin raises.
find_next_page_url(html_content) ==
    IF html_content.next = None THEN None
    ELSE LET absolute_next_url == urljoin(BASE_URL, Val(html_content.next))
         IN  IF absolute_next_url = ValueError THEN Raised
             ELSE Some(absolute_next_url)

(***************************************************************************)
(* The site: the documents the session can load.                           *)
(***************************************************************************)
Text1 == <<"L", "1">>

Text2 == <<" ", "L", "2", " ">>

Text3 == <<"L", "3">>

Good1 == [title |-> Some(Text1), href |-> Some("/p/1"),
          price |-> Some(<<"$", "1", ",", "2", "3", "4", ".", "5", "0">>),
          rating |-> Some(<<"4", ".", "5", " ", "o", "f", " ", "5">>),
          reviews |-> Some(<<"1", ",", "2", "3", "4", " ", "r">>)]

Good2 == [title |-> Some(Text2), href |-> Some("https://cdn.example.net/p/9"),
          price |-> Some(<<"N", "/", "A">>), rating |-> None,
          reviews |-> Some(<<"n", "e", "w">>)]

Good3 == [title |-> Some(Text3), href |-> Some("/p/3"),
          price |-> Some(<<"F", "r", "e", "e">>), rating |-> Some(<<"-">>),
          reviews |-> None]

NoName == [title |-> None, href |-> None, price |-> Some(<<"5">>),
           rating |-> Some(<<"3">>), reviews |-> Some(<<"7">>)]

EmptyName == [title |-> Some(<<" ">>), href |-> Some("/p/4"), price |-> None,
              rating |-> None, reviews |-> None]

NoHref == [title |-> Some(Text1), href |-> None, price |-> Some(<<"5">>),
           rating |-> None, reviews |-> None]

EmptyHref == [title |-> Some(Text1), href |-> Some(""), price |-> None,
              rating |-> None, reviews |-> None]

\* urljoin raises on its href: the container's exception is caught.
BadUrl == [title |-> Some(Text3), href |-> Some(BadHref), price |-> Some(<<"5">>),
           rating |-> None, reviews |-> None]

StartUrl == _get_full_url(CATEGORY_PATH)

Page2Url == _get_full_url(PAGE2_PATH)

URLs == {StartUrl, Page2Url}

\* The document of a session that has loaded nothing yet.
BlankLocation == "data:,"

BlankPage == [containers |-> <<>>, next |-> None, marker |-> FALSE]

\* Two products and a link to the second page.
PageA == [containers |-> <<Good1, Good2>>, next |-> Some(PAGE2_PATH), marker |-> FALSE]

\* No product, no link.
PageB == [containers |-> <<>>, next |-> None, marker |-> FALSE]

\* No product, no link, and the text "No results found".
PageNoResults == [containers |-> <<>>, next |-> None, marker |-> TRUE]

PageSamples ==
    { PageA, PageB, PageNoResults,
      [containers |-> <<NoName, Good3>>, next |-> Some(CATEGORY_PATH), marker |-> FALSE],
      [containers |-> <<>>, next |-> Some(PAGE2_PATH), marker |-> TRUE],
      [containers |-> <<>>, next |-> Some(PAGE2_PATH), marker |-> FALSE],
      [containers |-> <<Good3>>, next |-> Some(PAGE2_PATH), marker |-> TRUE],
      [containers |-> <<Good3, BadUrl>>, next |-> Some(BadHref), marker |-> FALSE] }

\* The largest page budget (config.MAX_PAGES) the model runs with.
MaxBudget == 5

\* parse_product_listings on the site's documents at each tick of a run,
\* tabulated once.
ParsedPages ==
    [p \in PageSamples, t \in 1..(MaxBudget + 1) |-> parse_product_listings(p, t)]

PageProducts(html_content, now) == ParsedPages[html_content, now]

(***************************************************************************)
(* utils.save_to_csv and utils.save_to_json on the file system fs.         *)
(* outcome is what the write does: "ok" or "error" (an exception raised    *)
(* inside the try block, which the function logs and swallows), or         *)
(* "no_dir": os.makedirs, which stands before the try block, raises.       *)
(***************************************************************************)
Columns == <<"name", "price", "rating", "reviews", "url", "scraped_timestamp">>

CsvRow(r) == <<r.name, r.price, r.rating, r.reviews, r.url, r.scraped_timestamp>>

\* pandas.DataFrame(data).to_csv(index=False): a header line and one row
\* per record.
to_csv(data) == [header |-> Columns, rows |-> [i \in 1..Len(data) |-> CsvRow(data[i])]]

\* Mutant: no test for an empty record sequence.
save_to_csv_unguarded(data, files, outcome) ==
    IF outcome = "no_dir" THEN files
    ELSE IF outcome = "ok"
    THEN [files EXCEPT !.dir = TRUE, !.csv = Some(to_csv(data))]
    ELSE [files EXCEPT !.dir = TRUE]

save_to_csv(data, files, outcome) ==
    IF data = <<>> THEN files
    ELSE IF outcome = "no_dir" THEN files
    ELSE IF outcome = "ok"
         THEN [files EXCEPT !.dir = TRUE, !.csv = Some(to_csv(data))]
         ELSE [files EXCEPT !.dir = TRUE]

save_to_json(data, files, outcome) ==
    IF data = <<>> THEN files
    ELSE IF outcome = "no_dir" THEN files
    ELSE IF outcome = "ok"
         THEN [files EXCEPT !.dir = TRUE, !.json = Some(data)]
         ELSE [files EXCEPT !.dir = TRUE]

WriteOutcomes == {"ok", "error"}

\* os.makedirs(output_dir, exist_ok=True) can only raise when the directory
\* is not there yet.
SinkOutcomes(files) ==
    IF files.dir THEN WriteOutcomes ELSE WriteOutcomes \cup {"no_dir"}

\* Whether the call leaves the function with an exception: the one of
\* os.makedirs, that no try block encloses.
SinkRaises(data, outcome) == data # <<>> /\ outcome = "no_dir"

(***************************************************************************)
(* State                                                                   *)
(***************************************************************************)
VARIABLES
    pc,                 \* position of main / scrape_products
    MAX_PAGES,          \* config.MAX_PAGES of this run
    web,                \* the site: URL -> document
    scraper_instance,   \* main's scraper_instance: None or Some("scraper")
    driver,             \* self.driver: None or Some("session")
    browser,            \* the browser session: "absent", "running", "quit"
    quit_calls,         \* number of driver.quit() calls issued
    loaded,             \* the location whose source the session holds
    current_url,        \* scrape_products' current_url: None or Some(url)
    page_count,         \* scrape_products' page_count
    all_products_data,  \* self.all_products_data
    scraped_data,       \* main's scraped_data (None before the return)
    fs,                 \* output directory and the two output files
    log,                \* the terminal log lines the claims are about
    fetches,            \* history: number of driver.get calls issued
    last,               \* history: url and outcome of the last iteration
    processed,          \* history: url and records of each page appended
    clock,              \* datetime.now() as an iteration tick
    slept,              \* seconds slept since current_url was last assigned
    arg,                \* a direct call of a parser function: its argument
    ret                 \* and its result (None before the call returns)

vars == <<pc, MAX_PAGES, web, scraper_instance, driver, browser, quit_calls,
          loaded, current_url, page_count, all_products_data, scraped_data,
          fs, log, fetches, last, processed, clock, slept, arg, ret>>

inputVars == <<MAX_PAGES, web, arg, ret>>

sessionVars == <<scraper_instance, driver, browser, quit_calls>>

loopVars == <<loaded, current_url, page_count, all_products_data, fetches,
              last, processed, clock, slept>>

NoFiles == [dir |-> FALSE, csv |-> None, json |-> None]

\* The output directory before the run: missing, or holding the files of an
\* earlier run.
OldRecord == [name |-> <<"L", "0">>, price |-> None, rating |-> None,
              reviews |-> None, url |-> "https://www.example-ecommerce.com/p/0",
              scraped_timestamp |-> 0]

InitialFiles ==
    {NoFiles, [dir |-> TRUE, csv |-> Some(to_csv(<<OldRecord>>)), json |-> Some(<<OldRecord>>)]}

NoLog == [reason |-> "running", budget_logged |-> FALSE, setup |-> "pending",
          scrape_called |-> FALSE, no_data_warned |-> FALSE]

Init ==
    /\ pc = "start"
    /\ MAX_PAGES \in 1..MaxBudget
    /\ web \in [URLs -> PageSamples]
    /\ scraper_instance = None
    /\ driver = None
    /\ browser = "absent"
    /\ quit_calls = 0
    /\ loaded = BlankLocation
    /\ current_url = None
    /\ page_count = 0
    /\ all_products_data = <<>>
    /\ scraped_data = None
    /\ fs \in InitialFiles
    /\ log = NoLog
    /\ fetches = 0
    /\ last = [url |-> None, outcome |-> "none", wait |-> "none"]
    /\ processed = <<>>
    /\ clock = 0
    /\ slept = 0
    /\ arg = None
    /\ ret = None

(***************************************************************************)
(* main, up to the call of scrape_products                                 *)
(***************************************************************************)
\* _setup_driver: "ok"; "no_browser" when ChromeDriverManager().install() or
\* webdriver.Chrome() raises; "late" when the browser was started and
\* driver.set_page_load_timeout() raises.
SetupOutcomes == {"ok", "no_browser", "late"}

\* Whether _setup_driver has started a browser session.
BrowserStarted(outcome) == outcome \in {"ok", "late"}

\* Mutant: the failure of the constructor is swallowed.
AfterConstructSwallows(outcome) == "constructed"

\* main after ProductScraper(): on to scrape_products, or, when the
\* constructor raised, through the except clause to the finally clause.
AfterConstruct(outcome) == IF outcome = "ok" THEN "constructed" ELSE "finally"

\* scraper_instance = ProductScraper()
Construct ==
    /\ pc = "start"
    /\ \E outcome \in SetupOutcomes :
        /\ browser' = IF BrowserStarted(outcome) THEN "running" ELSE "absent"
        /\ driver' = IF outcome = "ok" THEN Some("session") ELSE None
        /\ scraper_instance' = IF outcome = "ok" THEN Some("scraper") ELSE None
        /\ pc' = AfterConstruct(outcome)
        /\ log' = [log EXCEPT !.setup = outcome]
    /\ all_products_data' = <<>>
    /\ UNCHANGED <<inputVars, quit_calls, loaded, current_url, page_count,
                   scraped_data, fs, fetches, last, processed, clock, slept>>

\* scrape_products, up to the loop
EnterScrape ==
    /\ pc = "constructed"
    /\ current_url' = Some(StartUrl)
    /\ page_count' = 0
    /\ log' = [log EXCEPT !.scrape_called = TRUE]
    /\ pc' = "loop"
    /\ UNCHANGED <<inputVars, sessionVars, loaded, all_products_data,
                   scraped_data, fs, fetches, last, processed, clock, slept>>

(***************************************************************************)
(* scrape_products: one action per way an iteration of the loop can go     *)
(***************************************************************************)
\* Mutant: the budget test off by one (page_count <= MAX_PAGES).
LoopConditionInclusive(url, count, budget) ==
    url # None /\ Val(url) # "" /\ count <= budget

\* while current_url and page_count < config.MAX_PAGES
LoopCondition(url, count, budget) == url # None /\ Val(url) # "" /\ count < budget

InLoop == pc = "loop" /\ LoopCondition(current_url, page_count, MAX_PAGES)

EmptyLocation == ""

\* self.driver.page_source when the session holds location loc: None for an
\* empty source.
page_source(loc) ==
    IF loc = EmptyLocation THEN None
    ELSE IF loc = BlankLocation THEN Some(BlankPage)
    ELSE Some(web[loc])

\* Mutant: a recovery that fails starts over at the first page instead of
\* clearing current_url.
RecoverRestarts(src) ==
    IF src = Raised \/ src = None THEN Some(StartUrl)
    ELSE LET r == find_next_page_url(Val(src))
         IN  IF r = Raised \/ r = None THEN Some(StartUrl) ELSE r

\* try: current_url = parser.find_next_page_url(self.driver.page_source)
\* except Exception: current_url = None
\* src is the source read (None when empty), or Raised when the read raises.
Recover(src) ==
    IF src = Raised \/ src = None THEN None
    ELSE LET r == find_next_page_url(Val(src))
         IN  IF r = Raised THEN None ELSE r

\* wait.until(presence_of_element_located(PRODUCT_CONTAINER_SELECTOR)): a
\* document without containers times out; one with containers is found or,
\* rendering slowly, times out too.
WaitOutcomes(html) ==
    IF html.containers = <<>> THEN {"timeout"} ELSE {"found", "timeout"}

\* Mutant: every timeout of the wait ends the loop.
StopsOnAnyTimeout(waited, html) == waited = "timeout"

\* if "no results" in self.driver.page_source.lower(): break
StopsOnNoResults(waited, html) == waited = "timeout" /\ html.marker

\* Mutant: records whose URL was collected before are dropped.
ExtendDeduplicates(data, page_products) ==
    data \o SelectSeq(page_products, LAMBDA r : \A i \in 1..Len(data) : data[i].url # r.url)

\* Mutant: the page's records replace the accumulated ones.
ExtendOverwrites(data, page_products) == page_products

\* self.all_products_data.extend(page_products)
Extend(data, page_products) == data \o page_products

Step(u, outcome, waited) == [url |-> Some(u), outcome |-> outcome, wait |-> waited]

\* Mutant: the next page is fetched without the delay.
NoDelay(next_url) == 0

\* if current_url: time.sleep(config.REQUEST_DELAY)
\* The seconds slept after the resolution of the next link.
PoliteDelay(next_url) ==
    IF next_url # None /\ next_url # Raised THEN REQUEST_DELAY ELSE 0

\* Mutant: a page without records ends the loop (the break that lines
\* 117-118 leave commented out, for every page).
PageScrapedStopsWhenEmpty ==
    /\ InLoop
    /\ LET u             == Val(current_url)
           html_content  == web[u]
           page_products == PageProducts(html_content, clock + 1)
           next_url      == find_next_page_url(html_content)
       IN  /\ \E waited \in WaitOutcomes(html_content) :
                /\ ~StopsOnNoResults(waited, html_content)
                /\ last' = Step(u, IF next_url = Raised THEN "resolve_error" ELSE "scraped",
                                waited)
           /\ loaded' = u
           /\ slept' = PoliteDelay(next_url)
           /\ all_products_data' = Extend(all_products_data, page_products)
           /\ processed' = Append(processed, [url |-> u, records |-> page_products])
           /\ current_url' = IF next_url = Raised THEN Recover(page_source(u))
                             ELSE next_url
           /\ pc' = IF next_url = None \/ page_products = <<>> THEN "after_loop" ELSE "loop"
           /\ log' = IF next_url = None THEN [log EXCEPT !.reason = "no_next_link"]
                     ELSE log
    /\ page_count' = page_count + 1
    /\ fetches' = fetches + 1
    /\ clock' = clock + 1
    /\ UNCHANGED <<inputVars, sessionVars, scraped_data, fs>>

\* driver.get succeeds, the source is not empty, the page is parsed and its
\* records appended; then the next link is resolved (lines 113-132), or its
\* resolution raises and the handler of lines 147-155 recovers.
PageScraped ==
    /\ InLoop
    /\ LET u             == Val(current_url)
           html_content  == web[u]
           page_products == PageProducts(html_content, clock + 1)
           next_url      == find_next_page_url(html_content)
       IN  /\ \E waited \in WaitOutcomes(html_content) :
                /\ ~StopsOnNoResults(waited, html_content)
                /\ last' = Step(u, IF next_url = Raised THEN "resolve_error" ELSE "scraped",
                                waited)
           /\ loaded' = u
           /\ slept' = PoliteDelay(next_url)
           /\ all_products_data' = Extend(all_products_data, page_products)
           /\ processed' = Append(processed, [url |-> u, records |-> page_products])
           /\ current_url' = IF next_url = Raised THEN Recover(page_source(u))
                             ELSE next_url
           /\ pc' = IF next_url = None THEN "after_loop" ELSE "loop"
           /\ log' = IF next_url = None THEN [log EXCEPT !.reason = "no_next_link"]
                     ELSE log
    /\ page_count' = page_count + 1
    /\ fetches' = fetches + 1
    /\ clock' = clock + 1
    /\ UNCHANGED <<inputVars, sessionVars, scraped_data, fs>>

\* driver.get succeeds, the wait times out and the source holds the
\* "no results" marker: break (lines 92-97).
NoResults ==
    /\ InLoop
    /\ LET u == Val(current_url)
       IN  /\ StopsOnNoResults("timeout", web[u])
           /\ loaded' = u
           /\ last' = Step(u, "no_results", "timeout")
    /\ page_count' = page_count + 1
    /\ fetches' = fetches + 1
    /\ clock' = clock + 1
    /\ slept' = 0
    /\ pc' = "after_loop"
    /\ log' = [log EXCEPT !.reason = "no_results"]
    /\ UNCHANGED <<inputVars, sessionVars, current_url, all_products_data,
                   processed, scraped_data, fs>>

\* Mutant: the page whose load timed out gives its unit of budget back.
PageLoadTimeoutRefunds ==
    /\ InLoop
    /\ LET u == Val(current_url)
       IN  /\ \E held \in {loaded, u} :
                /\ loaded' = held
                /\ current_url' = Recover(page_source(held))
           /\ last' = Step(u, "load_timeout", "none")
    /\ page_count' = page_count
    /\ fetches' = fetches + 1
    /\ clock' = clock + 1
    /\ slept' = 0
    /\ UNCHANGED <<pc, log, inputVars, sessionVars, all_products_data,
                   processed, scraped_data, fs>>

\* driver.get raises TimeoutException (lines 134-142): the session holds
\* the document it held before or the one it was loading.
PageLoadTimeout ==
    /\ InLoop
    /\ LET u == Val(current_url)
       IN  /\ \E held \in {loaded, u} :
                /\ loaded' = held
                /\ current_url' = Recover(page_source(held))
           /\ last' = Step(u, "load_timeout", "none")
    /\ page_count' = page_count + 1
    /\ fetches' = fetches + 1
    /\ clock' = clock + 1
    /\ slept' = 0
    /\ UNCHANGED <<pc, log, inputVars, sessionVars, all_products_data,
                   processed, scraped_data, fs>>

\* driver.get succeeds and page_source is empty (lines 104-111); the second
\* read of page_source is empty again or holds the document by then.
EmptyHtml ==
    /\ InLoop
    /\ LET u == Val(current_url)
       IN  /\ \E held \in {EmptyLocation, u} :
                /\ loaded' = held
                /\ current_url' = Recover(page_source(held))
           /\ last' = Step(u, "empty_html", "timeout")
    /\ page_count' = page_count + 1
    /\ fetches' = fetches + 1
    /\ clock' = clock + 1
    /\ slept' = 0
    /\ UNCHANGED <<pc, log, inputVars, sessionVars, all_products_data,
                   processed, scraped_data, fs>>

\* Mutant: the handler of the fatal error continues instead of breaking.
FatalErrorContinues ==
    /\ InLoop
    /\ last' = Step(Val(current_url), "fatal", "none")
    /\ page_count' = page_count + 1
    /\ fetches' = fetches + 1
    /\ clock' = clock + 1
    /\ slept' = 0
    /\ log' = [log EXCEPT !.reason = "fatal"]
    /\ UNCHANGED <<pc, inputVars, sessionVars, loaded, current_url,
                   all_products_data, processed, scraped_data, fs>>

\* driver.get raises a WebDriverException that is no timeout: break
\* (lines 143-146).
FatalError ==
    /\ InLoop
    /\ last' = Step(Val(current_url), "fatal", "none")
    /\ page_count' = page_count + 1
    /\ fetches' = fetches + 1
    /\ clock' = clock + 1
    /\ slept' = 0
    /\ pc' = "after_loop"
    /\ log' = [log EXCEPT !.reason = "fatal"]
    /\ UNCHANGED <<inputVars, sessionVars, loaded, current_url,
                   all_products_data, processed, scraped_data, fs>>

\* Mutant: the unexpected error leaves scrape_products and reaches main's
\* except clause.
UnexpectedErrorEscapes ==
    /\ InLoop
    /\ last' = Step(Val(current_url), "unexpected", "none")
    /\ page_count' = page_count + 1
    /\ fetches' = fetches + 1
    /\ clock' = clock + 1
    /\ slept' = 0
    /\ pc' = "finally"
    /\ UNCHANGED <<log, inputVars, sessionVars, loaded, current_url,
                   all_products_data, processed, scraped_data, fs>>

\* Another exception is raised inside the try block before the page's
\* records are appended (lines 147-155): by driver.get, with the session
\* holding the document it held before, or after it by the wait, the read of
\* the source or the extraction, with the session holding the page.  The
\* handler's read of page_source raises too or yields that document.
UnexpectedError ==
    /\ InLoop
    /\ \E held \in {loaded, Val(current_url)} :
            /\ loaded' = held
            /\ \E src \in {Raised, page_source(held)} :
                    current_url' = Recover(src)
    /\ last' = Step(Val(current_url), "unexpected", "none")
    /\ page_count' = page_count + 1
    /\ fetches' = fetches + 1
    /\ clock' = clock + 1
    /\ slept' = 0
    /\ UNCHANGED <<pc, log, inputVars, sessionVars, all_products_data,
                   processed, scraped_data, fs>>

\* The loop condition is false.
WhileExit ==
    /\ pc = "loop"
    /\ ~LoopCondition(current_url, page_count, MAX_PAGES)
    /\ pc' = "after_loop"
    /\ log' = [log EXCEPT !.reason = IF current_url = None THEN "recovery_failed"
                                     ELSE "budget_exhausted"]
    /\ UNCHANGED <<inputVars, sessionVars, loopVars, scraped_data, fs>>

\* if page_count >= config.MAX_PAGES: "Reached maximum page limit"
ReportsBudget(count, budget) == count >= budget

\* Lines 157-161, and main's scraped_data = scraper_instance.scrape_products()
Return ==
    /\ pc = "after_loop"
    /\ log' = [log EXCEPT !.budget_logged = ReportsBudget(page_count, MAX_PAGES)]
    /\ scraped_data' = Some(all_products_data)
    /\ pc' = "returned"
    /\ UNCHANGED <<inputVars, sessionVars, loopVars, fs>>

(***************************************************************************)
(* main, after scrape_products                                             *)
(***************************************************************************)
\* if scraped_data:
HasData(data) == data # None /\ Val(data) # <<>>

\* utils.save_to_csv(scraped_data, ...) at line 34; when it raises, main's
\* except clause (lines 40-43) logs and the finally clause follows.
SaveCsv ==
    /\ pc = "returned"
    /\ HasData(scraped_data)
    /\ \E outcome \in SinkOutcomes(fs) :
            /\ fs' = save_to_csv(Val(scraped_data), fs, outcome)
            /\ pc' = IF SinkRaises(Val(scraped_data), outcome) THEN "finally"
                     ELSE "csv_saved"
    /\ UNCHANGED <<inputVars, sessionVars, loopVars, scraped_data, log>>

\* utils.save_to_json(scraped_data, ...) at line 35; raising or not, the
\* finally clause follows.
SaveJson ==
    /\ pc = "csv_saved"
    /\ \E outcome \in SinkOutcomes(fs) :
            fs' = save_to_json(Val(scraped_data), fs, outcome)
    /\ pc' = "finally"
    /\ UNCHANGED <<inputVars, sessionVars, loopVars, scraped_data, log>>

NoData ==
    /\ pc = "returned"
    /\ ~HasData(scraped_data)
    /\ log' = [log EXCEPT !.no_data_warned = TRUE]
    /\ pc' = "finally"
    /\ UNCHANGED <<inputVars, sessionVars, loopVars, scraped_data, fs>>

\* Mutant: quit() is called whether or not a session is held.
CallsQuitAlways(d) == TRUE

\* close_driver: whether it calls self.driver.quit()
CallsQuit(d) == d # None

\* finally: if scraper_instance: scraper_instance.close_driver()
ClosesDriver(instance) == instance # None

\* quit() ends the session, or raises and leaves it running or ended.
Finally ==
    /\ pc = "finally"
    /\ IF ClosesDriver(scraper_instance) /\ CallsQuit(driver)
       THEN /\ quit_calls' = quit_calls + 1
            /\ browser' \in {"quit", browser}
            /\ driver' = None
       ELSE UNCHANGED <<quit_calls, browser, driver>>
    /\ pc' = "done"
    /\ UNCHANGED <<inputVars, scraper_instance, loopVars, scraped_data, fs, log>>

Next ==
    \/ Construct
    \/ EnterScrape
    \/ PageScraped
    \/ NoResults
    \/ PageLoadTimeout
    \/ EmptyHtml
    \/ FatalError
    \/ UnexpectedError
    \/ WhileExit
    \/ Return
    \/ SaveCsv
    \/ SaveJson
    \/ NoData
    \/ Finally

Spec == Init /\ [][Next]_vars

\* main runs to completion one step after the other.
FairSpec == Spec /\ WF_vars(Next)

(***************************************************************************)
(* Direct calls of parser.parse_product_listings                           *)
(***************************************************************************)
\* The longest container list of a document handed to the parser.
MaxContainers == 3

ContainerSamples ==
    {Good1, Good2, Good3, NoName, EmptyName, NoHref, EmptyHref, BadUrl}

SeqsUpTo(S, n) == UNION {[1..k -> S] : k \in 0..n}

ParserInit ==
    /\ pc = "call"
    /\ \E cs \in SeqsUpTo(ContainerSamples, MaxContainers) :
            arg = Some([containers |-> cs, next |-> None, marker |-> FALSE])
    /\ ret = None
    /\ MAX_PAGES = 1
    /\ web = [u \in URLs |-> BlankPage]
    /\ scraper_instance = None
    /\ driver = None
    /\ browser = "absent"
    /\ quit_calls = 0
    /\ loaded = BlankLocation
    /\ current_url = None
    /\ page_count = 0
    /\ all_products_data = <<>>
    /\ scraped_data = None
    /\ fs = NoFiles
    /\ log = NoLog
    /\ fetches = 0
    /\ last = [url |-> None, outcome |-> "none", wait |-> "none"]
    /\ processed = <<>>
    /\ clock = 0
    /\ slept = 0

ParseListing ==
    /\ pc = "call"
    /\ ret' = Some(parse_product_listings(Val(arg), clock))
    /\ pc' = "called"
    /\ UNCHANGED <<MAX_PAGES, web, arg, sessionVars, loopVars, scraped_data, fs, log>>

ParserNext == ParseListing

ParserSpec == ParserInit /\ [][ParserNext]_vars

(***************************************************************************)
(* Properties                                                              *)
(***************************************************************************)
\* The concatenation, in order, of the record sequences of ps.
Flatten(ps) ==
    LET F[i \in 0..Len(ps)] == IF i = 0 THEN <<>> ELSE F[i - 1] \o ps[i].records
    IN  F[Len(ps)]

Returned == scraped_data # None

\* C1: scrape_products issues at most MAX_PAGES page fetches whatever the
\* pages do, and with a budget of 1 it has issued exactly one fetch when it
\* returns, also when page 1 exposes a next link.
ThmC1_FetchesWithinBudget ==
    /\ fetches <= MAX_PAGES
    /\ (MAX_PAGES = 1 /\ Returned) => fetches = 1

WitC1_BudgetOneWithNextLink ==
    /\ MAX_PAGES = 1
    /\ Returned
    /\ fetches = 1
    /\ last.outcome = "scraped"
    /\ current_url = Some(Page2Url)

\* C2: when main is done, a browser session that was started has been quit
\* exactly once, and none is quit that was not started.
C2_SessionReleasedExactlyOnce ==
    pc = "done" =>
        /\ BrowserStarted(log.setup) => quit_calls = 1
        /\ ~BrowserStarted(log.setup) => quit_calls = 0

\* C3: the step on which a fetch raises a fatal transport error appends
\* nothing, recovers no next link and leaves the loop; from then on no fetch
\* is issued, the records stay those of the pages before it and are what
\* scrape_products returns; after a fatal error on page 1 they are empty and
\* no output file is written; the session is quit once when main is done.
C3Step ==
    /\ (log.reason # "fatal" /\ log'.reason = "fatal") =>
            /\ fetches' = fetches + 1
            /\ all_products_data' = all_products_data
            /\ current_url' = current_url
            /\ pc' = "after_loop"
    /\ log.reason = "fatal" =>
            /\ fetches' = fetches
            /\ all_products_data' = all_products_data
            /\ all_products_data = Flatten(processed)
            /\ scraped_data' # None => Val(scraped_data') = Flatten(processed)
            /\ fetches = 1 => (all_products_data = <<>> /\ pc' # "csv_saved"
                               /\ fs' \in InitialFiles)
            /\ pc' = "done" => (quit_calls' = 1 /\ driver' = None)

ThmC3_FatalErrorEndsCrawl == [][C3Step]_vars

WitC3_FatalOnSecondPage ==
    /\ pc = "done"
    /\ log.reason = "fatal"
    /\ fetches = 2
    /\ Len(all_products_data) = 2
    /\ scraped_data = Some(all_products_data)
    /\ quit_calls = 1

\* Why the loop was left, read from the state it was left in.
ExitJustified ==
    \/ /\ log.reason = "budget_exhausted"
       /\ page_count = MAX_PAGES
       /\ current_url # None
    \/ /\ log.reason = "no_next_link"
       /\ last.outcome = "scraped"
       /\ web[Val(last.url)].next = None
    \/ /\ log.reason = "no_results"
       /\ last.wait = "timeout"
       /\ web[Val(last.url)].marker
    \/ /\ log.reason = "recovery_failed"
       /\ last.outcome \in {"load_timeout", "empty_html", "unexpected", "resolve_error"}
       /\ current_url = None
    \/ /\ log.reason = "fatal"
       /\ last.outcome = "fatal"

\* C4: every call of scrape_products returns, and the loop is left only with
\* the budget exhausted, on a terminal condition (no next link, the
\* no-results marker, a recovery that yields no URL) or on a fatal error.
ThmC4_ScrapeReturns ==
    /\ log.scrape_called ~> Returned
    /\ [](pc = "after_loop" => ExitJustified)

WitC4_CycleEndsOnBudget ==
    /\ Returned
    /\ log.reason = "budget_exhausted"
    /\ MAX_PAGES = 4
    /\ fetches = 4
    /\ web[StartUrl].next = Some(PAGE2_PATH)
    /\ web[Page2Url].next = Some(CATEGORY_PATH)

\* The scenario of C5: page A at the start URL, a page without containers
\* and without next link at the second URL, a budget of 5.
ScenarioC5 ==
    /\ MAX_PAGES = 5
    /\ web[StartUrl] = PageA
    /\ web[Page2Url].containers = <<>>
    /\ web[Page2Url].next = None

\* Every fetch so far delivered its page: it was appended, or it was the
\* page the loop stopped on for its no-results marker.
CleanRun ==
    \/ Len(processed) = fetches
    \/ Len(processed) = fetches - 1 /\ last.outcome = "no_results"

\* The two records of page A.
ScenarioC5Records ==
    /\ Len(all_products_data) = 2
    /\ all_products_data[1].name = <<"L", "1">>
    /\ all_products_data[1].url = "https://www.example-ecommerce.com/p/1"
    /\ all_products_data[2].name = <<"L", "2">>
    /\ all_products_data[2].url = "https://cdn.example.net/p/9"
    /\ scraped_data = Some(all_products_data)

\* A loop left for want of a next link returns the concatenation of the
\* records of the pages appended, and the page without link is the last one
\* fetched.
EndsOnPageWithoutLink ==
    (Returned /\ log.reason = "no_next_link") =>
        /\ Val(scraped_data) = Flatten(processed)
        /\ processed # <<>>
        /\ last.url = Some(processed[Len(processed)].url)
        /\ web[Val(last.url)].next = None

C6_BudgetReportedIffCause ==
    (pc = "done" /\ Returned) =>
        (log.budget_logged <=> log.reason = "budget_exhausted")

\* C7: a run whose crawl returns no record leaves the output directory and
\* both files as they were, never reaches the writes, quits the session once
\* and ends after the no-data warning; save_to_csv and save_to_json given an
\* empty sequence change nothing of the file system.
ThmC7_NoRecordsNoFiles ==
    /\ scraped_data = Some(<<>>) =>
            /\ fs \in InitialFiles
            /\ pc # "csv_saved"
            /\ pc = "done" => (quit_calls = 1 /\ driver = None /\ log.no_data_warned)
    /\ \A f \in InitialFiles, o \in WriteOutcomes :
            /\ save_to_csv(<<>>, f, o) = f
            /\ save_to_json(<<>>, f, o) = f

WitC7_EmptyRunDone ==
    /\ pc = "done"
    /\ scraped_data = Some(<<>>)
    /\ fetches = 2
    /\ quit_calls = 1
    /\ fs.dir

\* C8: when the construction of ProductScraper raises, scrape_products is
\* never called, no page is fetched and no output file is written.
ThmC8_SetupFailureAborts ==
    log.setup \in {"no_browser", "late"} =>
        /\ ~log.scrape_called
        /\ fetches = 0
        /\ ~Returned
        /\ fs \in InitialFiles
        /\ pc \in {"finally", "done"}

WitC8_SetupFailedDone == pc = "done" /\ log.setup = "no_browser"

\* C9: after a page-load timeout, an empty source or an unexpected error on
\* URL u, the URL the loop fetches next is never u (stated for the sites
\* where the page at u does not link to itself).
C9_NeverRefetchesFailedPage ==
    ( /\ InLoop
      /\ last.outcome \in {"load_timeout", "empty_html", "unexpected"}
      /\ find_next_page_url(web[Val(last.url)]) # last.url )
    => current_url # last.url

\* C10 reads the containers on its own terms: a container has a name when
\* its title element holds a character that is no whitespace, and a URL when
\* its title link has a non-empty href that urljoin accepts.
HasName(c) == c.title # None /\ \E i \in 1..Len(Val(c.title)) : ~IsSpace(Val(c.title)[i])

HasUrl(c) == c.href # None /\ Val(c.href) \notin {"", BadHref}

WellFormedOnly(cs) ==
    LET W[i \in 0..Len(cs)] ==
            IF i = 0 THEN <<>>
            ELSE IF HasName(cs[i]) /\ HasUrl(cs[i]) THEN Append(W[i - 1], cs[i])
                 ELSE W[i - 1]
    IN  W[Len(cs)]

\* The record expected of each well-formed sample container.
ExpectedRecord(c, now) ==
    CASE c = Good1 -> [name |-> <<"L", "1">>, price |-> Some(<<12345, 1>>),
                       rating |-> Some(<<45, 1>>), reviews |-> Some(1234),
                       url |-> "https://www.example-ecommerce.com/p/1",
                       scraped_timestamp |-> now]
      [] c = Good2 -> [name |-> <<"L", "2">>, price |-> None, rating |-> None,
                       reviews |-> None, url |-> "https://cdn.example.net/p/9",
                       scraped_timestamp |-> now]
      [] c = Good3 -> [name |-> <<"L", "3">>, price |-> Some(<<0, 0>>),
                       rating |-> None, reviews |-> None,
                       url |-> "https://www.example-ecommerce.com/p/3",
                       scraped_timestamp |-> now]

\* C10: parse_product_listings returns, in document order, one record per
\* container that has a name and a URL and none for the others; containers
\* that are skipped or raise leave the records of their siblings as they
\* are; a field whose text does not parse is absent in the record.
ThmC10_OneRecordPerWellFormedContainer ==
    pc = "called" =>
        LET cs  == Val(arg).containers
            wf  == WellFormedOnly(cs)
            out == Val(ret)
        IN  /\ Len(out) = Len(wf)
            /\ \A k \in 1..Len(wf) : out[k] = ExpectedRecord(wf[k], clock)
            /\ out = parse_product_listings([Val(arg) EXCEPT !.containers = wf], clock)

WitC10_RaisingContainerBetweenGoodOnes ==
    /\ pc = "called"
    /\ Val(arg).containers = <<Good1, BadUrl, Good2>>
    /\ Len(Val(ret)) = 2

(***************************************************************************)
(* Direct calls of the review-count extraction of parse_product_listings   *)
(***************************************************************************)
\* The variables of a run of main, at rest during a direct call.
NoRun ==
    /\ MAX_PAGES = 1
    /\ web = [u \in URLs |-> BlankPage]
    /\ scraper_instance = None
    /\ driver = None
    /\ browser = "absent"
    /\ quit_calls = 0
    /\ loaded = BlankLocation
    /\ current_url = None
    /\ page_count = 0
    /\ all_products_data = <<>>
    /\ scraped_data = None
    /\ fs = NoFiles
    /\ log = NoLog
    /\ fetches = 0
    /\ last = [url |-> None, outcome |-> "none", wait |-> "none"]
    /\ processed = <<>>
    /\ clock = 0
    /\ slept = 0

\* The longest text of a reviews element.
MaxReviewText == 5

ReviewChars == {"1", "2", ",", "r"}

\* reviews_str: None when the element is missing, else its text.
ReviewsInit ==
    /\ pc = "call"
    /\ arg \in {None} \cup {Some(t) : t \in SeqsUpTo(ReviewChars, MaxReviewText)}
    /\ ret = None
    /\ NoRun

ExtractReviews ==
    /\ pc = "call"
    /\ ret' = extract_reviews(arg)
    /\ pc' = "reviews"
    /\ UNCHANGED <<MAX_PAGES, web, arg, sessionVars, loopVars, scraped_data, fs, log>>

ReviewsNext == ExtractReviews

ReviewsSpec == ReviewsInit /\ [][ReviewsNext]_vars

\* C11 reads the text on its own terms: the first numeral starts at the
\* first digit of s, at index i; it is the whole run of digits there when
\* the run is longer than three digits, else the run with the ",ddd" groups
\* that follow it.
FirstNumeral(s, i) ==
    IF DigitRun(s, i) > 3 THEN SubSeq(s, i, i + DigitRun(s, i) - 1)
    ELSE ReviewsGroup(s, i, DigitRun(s, i))

ReviewCountOf(s) ==
    IF FirstIndex(s, DigitSet) = 0 THEN None
    ELSE Some(DigitsValue(Remove(FirstNumeral(s, FirstIndex(s, DigitSet)), {","})))

\* C11: the review count extracted from a text is the value of its first
\* numeral taken as a whole, separators removed (an ungrouped run of more
\* than three digits gives the whole number), and it is absent when the text
\* has no digit.
C11_ReviewCountIsFirstNumeral ==
    (pc = "reviews" /\ arg # None) => ret = ReviewCountOf(Val(arg))

(***************************************************************************)
(* Direct calls of utils.clean_price                                       *)
(***************************************************************************)
\* The largest number of tokens of a price text.
MaxPriceTokens == 3

\* The pieces price texts are made of.
PriceTokens ==
    { <<"$">>, <<",">>, <<" ">>, <<"-">>, <<".">>, <<"+">>, <<"0">>, <<"1">>, <<"5">>,
      <<"F", "r", "e", "e">>, <<"F", "R", "E", "E">>, <<"N", "/", "A">>,
      <<"N", "a", "N">> }

\* The text a sequence of tokens spells.
Join(ts) ==
    LET J[i \in 0..Len(ts)] == IF i = 0 THEN <<>> ELSE J[i - 1] \o ts[i]
    IN  J[Len(ts)]

PriceTexts == {Join(ts) : ts \in SeqsUpTo(PriceTokens, MaxPriceTokens)}

\* price_str: None, or a text.
PriceInit ==
    /\ pc = "call"
    /\ arg \in {None} \cup {Some(t) : t \in PriceTexts}
    /\ ret = None
    /\ NoRun

CleanPrice ==
    /\ pc = "call"
    /\ ret' = clean_price(arg)
    /\ pc' = "priced"
    /\ UNCHANGED <<MAX_PAGES, web, arg, sessionVars, loopVars, scraped_data, fs, log>>

PriceNext == CleanPrice

PriceSpec == PriceInit /\ [][PriceNext]_vars

\* C12 reads the text on its own terms.  The cleaned text is the text
\* without currency symbols, commas and whitespace; its lower bound is what
\* precedes its first '-' (the whole of it when it has none).
CleanedText(t) == Remove(t, PriceNoise)

LowerBoundText(t) == LowerOfRange(CleanedText(t), FirstIndex(CleanedText(t), {"-"}))

Unsign(s) == IF s # <<>> /\ Head(s) = "+" THEN Tail(s) ELSE s

\* A numeral: digits with at most one decimal point and at least one digit,
\* after an optional '+'.
IsNumeral(s) ==
    /\ \A i \in 1..Len(Unsign(s)) : IsDigit(Unsign(s)[i]) \/ Unsign(s)[i] = "."
    /\ Cardinality({i \in 1..Len(Unsign(s)) : Unsign(s)[i] = "."}) <= 1
    /\ \E i \in 1..Len(Unsign(s)) : IsDigit(Unsign(s)[i])

NumeralValue(s) ==
    Normalise(DigitsValue(Remove(Unsign(s), {"."})),
              IF FirstIndex(Unsign(s), {"."}) = 0 THEN 0
              ELSE Len(Unsign(s)) - FirstIndex(Unsign(s), {"."}))

PriceOfText(t) ==
    IF Lower(LowerBoundText(t)) = <<"f", "r", "e", "e">> THEN Some(<<0, 0>>)
    ELSE IF IsNumeral(LowerBoundText(t)) THEN Some(NumeralValue(LowerBoundText(t)))
    ELSE None

\* C12: clean_price returns the lower bound of a range, 0 for "free" in any
\* letter case, the value of a numeral, and absent for every other text and
\* for an absent input; the price it returns is a number that is not
\* negative.
C12_PriceIsNumeralFreeOrAbsent ==
    pc = "priced" =>
        /\ arg = None => ret = None
        /\ arg # None => ret = PriceOfText(Val(arg))
        /\ ret # None => (IsDecimal(Val(ret)) /\ Val(ret)[1] >= 0)

\* The next-page URL the available HTML src gives (src is None when the
\* session holds no HTML): absent when there is no HTML, no next link, or a
\* link that cannot be resolved.
NextLinkOf(src) ==
    IF src = None THEN None
    ELSE IF Val(src).next = None \/ Val(src).next = Some(BadHref) THEN None
    ELSE Some(urljoin(BASE_URL, Val(Val(src).next)))

FetchFailed(outcome) == outcome \in {"load_timeout", "empty_html"}

C13Step ==
    /\ (pc = "loop" /\ fetches' = fetches + 1 /\ FetchFailed(last'.outcome)) =>
            /\ all_products_data' = all_products_data
            /\ processed' = processed
            /\ pc' = "loop"
            /\ current_url' = NextLinkOf(page_source(loaded'))
    /\ (pc = "loop" /\ current_url = None) =>
            /\ pc' = "after_loop"
            /\ fetches' = fetches
            /\ all_products_data' = all_products_data
    /\ pc = "after_loop" => scraped_data' = Some(all_products_data)

UnexpectedFailure(outcome) == outcome \in {"unexpected", "resolve_error"}

C14Step ==
    /\ (pc = "loop" /\ fetches' = fetches + 1 /\ UnexpectedFailure(last'.outcome)) =>
            /\ pc' = "loop"
            /\ scraped_data' = None
            /\ SubSeq(all_products_data', 1, Len(all_products_data)) = all_products_data
            /\ last'.outcome = "unexpected" => all_products_data' = all_products_data
            /\ current_url' \in {None, NextLinkOf(page_source(loaded'))}
            /\ (current_url' # None /\ page_count' < MAX_PAGES) =>
                    LoopCondition(current_url', page_count', MAX_PAGES)
    /\ (pc = "loop" /\ fetches' = fetches + 1) => last'.url = current_url
    /\ (pc = "loop" /\ UnexpectedFailure(last.outcome) /\ current_url = None) =>
            /\ pc' = "after_loop"
            /\ fetches' = fetches
            /\ all_products_data' = all_products_data
    /\ (pc = "after_loop" /\ UnexpectedFailure(last.outcome)) =>
            /\ scraped_data' = Some(all_products_data)
            /\ pc' = "returned"

\* C14: an unexpected error raised by the extraction or by the resolution
\* of the next link stays inside scrape_products: the records accumulated
\* so far are kept, current_url becomes the next-page URL recovered from the
\* session's HTML, which is the URL of the next fetch when the budget allows
\* one, or None when the recovery raises or finds no link; then the loop
\* ends and the accumulated records are returned.
ThmC14_UnexpectedErrorRecovered == [][C14Step]_vars

WitC14_RecoveredAfterRecords ==
    /\ pc = "loop"
    /\ last.outcome = "unexpected"
    /\ Len(all_products_data) = 2
    /\ current_url = Some(Page2Url)
    /\ page_count < MAX_PAGES

\* The page fetched by the step, its HTML read in full.
PageRead(outcome) == outcome \in {"scraped", "resolve_error", "no_results"}

C15Step ==
    /\ (pc = "loop" /\ fetches' = fetches + 1 /\ PageRead(last'.outcome)
            /\ last'.wait = "timeout") =>
            LET html == web[Val(current_url)]
                next == find_next_page_url(html)
            IN  IF html.marker
                THEN /\ last'.outcome = "no_results"
                     /\ pc' = "after_loop"
                     /\ all_products_data' = all_products_data
                     /\ processed' = processed
                ELSE /\ last'.outcome # "no_results"
                     /\ all_products_data' =
                            all_products_data \o parse_product_listings(html, clock')
                     /\ current_url' = IF next = Raised THEN None ELSE next
                     /\ pc' = IF next = None THEN "after_loop" ELSE "loop"
    /\ (pc = "loop" /\ fetches' = fetches + 1 /\ PageRead(last'.outcome)
            /\ last'.wait = "found") =>
            LET html == web[Val(current_url)]
                next == find_next_page_url(html)
            IN  /\ last'.outcome # "no_results"
                /\ all_products_data' =
                       all_products_data \o parse_product_listings(html, clock')
                /\ current_url' = IF next = Raised THEN None ELSE next
                /\ pc' = IF next = None THEN "after_loop" ELSE "loop"
    /\ pc \in {"after_loop", "returned"} => fetches' = fetches

\* C15: a timeout of the wait for the product containers does not abort the
\* crawl.  When the page's HTML holds the "no results" marker the loop ends
\* at once: no record of the page is appended and no further page is
\* fetched.  When it does not, the page's records are appended and its next
\* link followed exactly as after a wait that succeeded.
ThmC15_WaitTimeoutNotFatal == [][C15Step]_vars

WitC15_SlowPageStillScraped ==
    /\ pc = "loop"
    /\ last.wait = "timeout"
    /\ last.outcome = "scraped"
    /\ fetches = 1
    /\ Len(all_products_data) = 2
    /\ current_url = Some(Page2Url)

C16Step ==
    /\ (pc = "loop" /\ fetches' = fetches + 1 /\ last'.outcome = "scraped"
            /\ parse_product_listings(web[Val(current_url)], clock') = <<>>) =>
            LET next == find_next_page_url(web[Val(current_url)])
            IN  /\ current_url' = next
                /\ pc' = IF next = None THEN "after_loop" ELSE "loop"
                /\ log'.reason = IF next = None THEN "no_next_link" ELSE "running"
    /\ (pc = "loop" /\ fetches' = fetches + 1 /\ last'.outcome = "no_results") =>
            web[Val(current_url)].marker
    /\ (pc = "loop" /\ current_url # None /\ page_count < MAX_PAGES) =>
            (fetches' = fetches + 1 /\ last'.url = current_url)
    /\ (pc = "loop" /\ fetches' = fetches + 1 /\ last'.outcome = "scraped") =>
            all_products_data' =
                all_products_data \o parse_product_listings(web[Val(current_url)], clock')

ProcessedAsExtracted ==
    \A i \in 1..Len(processed) :
        \E t \in 1..clock :
            processed[i].records = PageProducts(web[processed[i].url], t)

GrowsAtEnd ==
    /\ Len(all_products_data') >= Len(all_products_data)
    /\ SubSeq(all_products_data', 1, Len(all_products_data)) = all_products_data

\* C17: at every point of a run the accumulated sequence is the
\* concatenation, in visit order, of the records extracted from the pages
\* processed so far; it only grows at its end, and records that repeat
\* across pages are kept.
ThmC17_AccumulatedIsConcatenation ==
    /\ [](all_products_data = Flatten(processed) /\ ProcessedAsExtracted)
    /\ [][GrowsAtEnd]_vars

WitC17_RevisitedPageKeptTwice ==
    /\ Returned
    /\ Len(processed) = 2
    /\ processed[1].url = StartUrl
    /\ processed[2].url = StartUrl
    /\ Len(Val(scraped_data)) = 2
    /\ Val(scraped_data)[1].url = Val(scraped_data)[2].url

C18Step ==
    /\ (pc = "loop" /\ fetches' = fetches + 1 /\ last'.outcome = "scraped"
            /\ find_next_page_url(web[Val(current_url)]) # None) =>
            /\ current_url' = find_next_page_url(web[Val(current_url)])
            /\ slept' = REQUEST_DELAY
            /\ pc' = "loop"
    /\ (pc = "loop" /\ fetches' = fetches + 1 /\ last.outcome = "scraped") =>
            /\ slept >= REQUEST_DELAY
            /\ last'.url = current_url
    /\ fetches' \in {fetches, fetches + 1}
    /\ fetches' = fetches + 1 => (pc = "loop" /\ Len(processed) <= fetches)
    /\ Len(processed') <= fetches'

\* C18: when the resolution of the next link at the end of a processed page
\* gives a URL, current_url becomes that URL and the whole of REQUEST_DELAY
\* is slept before the next page is fetched; fetches are issued one at a
\* time, each only after the extraction, resolution and delay of the page
\* before it are over.
ThmC18_DelayBeforeNextFetch == [][C18Step]_vars

WitC18_SecondPageAfterDelay ==
    /\ fetches = 2
    /\ Len(processed) = 2
    /\ processed[1].url = StartUrl
    /\ last.url = Some(Page2Url)
    /\ last.outcome = "scraped"

(***************************************************************************)
(* Direct calls of parser.find_next_page_url, twice on the same document,  *)
(* at different points of a crawl.                                         *)
(***************************************************************************)
\* The href of the a.pagination-next[href] element: None when no element
\* matches the selector.
NextHrefs ==
    {None, Some(""), Some(CATEGORY_PATH), Some(PAGE2_PATH), Some(BadHref)}
        \cup {Some(h) : h \in AbsoluteHrefs}

NextLinkDocuments ==
    [containers : {<<>>, <<Good1>>, <<Good1, Good2>>}, next : NextHrefs, marker : BOOLEAN]

NextLinkInit ==
    /\ pc = "call"
    /\ arg \in {Some(d) : d \in NextLinkDocuments}
    /\ ret = None
    /\ MAX_PAGES = 1
    /\ web = [u \in URLs |-> BlankPage]
    /\ scraper_instance = None
    /\ driver = None
    /\ browser = "absent"
    /\ quit_calls = 0
    /\ loaded = BlankLocation
    /\ current_url \in {None, Some(StartUrl), Some(Page2Url)}
    /\ page_count \in {0, 1}
    /\ all_products_data = <<>>
    /\ scraped_data = None
    /\ fs = NoFiles
    /\ log = NoLog
    /\ fetches = 0
    /\ last = [url |-> None, outcome |-> "none", wait |-> "none"]
    /\ processed = <<>>
    /\ clock = 0
    /\ slept = 0

\* ret holds the results of the calls made so far.
FindNext ==
    /\ pc = "call"
    /\ ret' = Some(<<find_next_page_url(Val(arg))>>)
    /\ pc' = "called_once"
    /\ UNCHANGED <<MAX_PAGES, web, arg, sessionVars, loopVars, scraped_data, fs, log>>

FindNextAgain ==
    /\ pc = "called_once"
    /\ ret' = Some(Append(Val(ret), find_next_page_url(Val(arg))))
    /\ pc' = "called_twice"
    /\ UNCHANGED <<MAX_PAGES, web, arg, sessionVars, loopVars, scraped_data, fs, log>>

NextLinkNext == FindNext \/ FindNextAgain

NextLinkSpec == NextLinkInit /\ [][NextLinkNext]_vars

\* A result that is a URL: neither absent nor an exception.
IsUrlResult(r) == Len(r) = 1

\* C19: find_next_page_url depends on its HTML alone: two calls on the same
\* HTML give the same absolute URL or both give absent, and the result is a
\* URL exactly when the HTML holds a next-page link element with an href
\* (absent otherwise), whatever the state of the crawl.
C19_NextLinkIsFunctionOfHtml ==
    pc \in {"called_once", "called_twice"} =>
        /\ \A i \in 1..Len(Val(ret)) :
                /\ IsUrlResult(Val(ret)[i]) <=> Val(arg).next # None
                /\ Val(arg).next = None => Val(ret)[i] = None
        /\ pc = "called_twice" => Val(ret)[1] = Val(ret)[2]

(***************************************************************************)
(* Repeated calls of ProductScraper.close_driver on a scraper that holds a *)
(* session, at any point of its life.                                      *)
(***************************************************************************)
\* The largest number of calls of close_driver.
MaxCloseCalls == 3

\* ret holds what each call made so far did: "returned" or "raised".
CloseInit ==
    /\ pc = "constructed"
    /\ arg = None
    /\ ret = Some(<<>>)
    /\ MAX_PAGES \in 1..MaxBudget
    /\ page_count \in 0..MAX_PAGES
    /\ fetches = page_count
    /\ clock = page_count
    /\ fs \in InitialFiles
    /\ web = [u \in URLs |-> BlankPage]
    /\ scraper_instance = Some("scraper")
    /\ driver = Some("session")
    /\ browser = "running"
    /\ quit_calls = 0
    /\ loaded = BlankLocation
    /\ current_url = None
    /\ all_products_data = <<>>
    /\ scraped_data = None
    /\ log = [NoLog EXCEPT !.setup = "ok"]
    /\ last = [url |-> None, outcome |-> "none", wait |-> "none"]
    /\ processed = <<>>
    /\ slept = 0

QuitOutcomes == {"ok", "raises"}

\* What a call of close_driver does when quit() does outcome: the except
\* clause catches what quit() raises.
CloseResult(outcome) == "returned"

close_driver ==
    /\ Len(Val(ret)) < MaxCloseCalls
    /\ IF CallsQuit(driver)
       THEN \E outcome \in QuitOutcomes :
                /\ quit_calls' = quit_calls + 1
                /\ browser' = IF outcome = "ok" THEN "quit" ELSE browser
                /\ driver' = None
                /\ ret' = Some(Append(Val(ret), CloseResult(outcome)))
       ELSE /\ ret' = Some(Append(Val(ret), "returned"))
            /\ UNCHANGED <<quit_calls, browser, driver>>
    /\ UNCHANGED <<pc, MAX_PAGES, web, arg, scraper_instance, loopVars,
                   scraped_data, fs, log>>

CloseNext == close_driver

CloseSpec == CloseInit /\ [][CloseNext]_vars

\* C20: over any number of calls of close_driver the session's quit() is
\* called at most once; after the first call the scraper holds no session,
\* also when quit() raised; no call raises.
ThmC20_CloseDriverIdempotent ==
    /\ quit_calls <= 1
    /\ Len(Val(ret)) >= 1 => (driver = None /\ quit_calls = 1)
    /\ \A i \in 1..Len(Val(ret)) : Val(ret)[i] = "returned"

WitC20_ThreeCallsQuitRaised ==
    /\ Len(Val(ret)) = 3
    /\ quit_calls = 1
    /\ browser = "running"
    /\ driver = None

\* The outcomes of an iteration that adds no page to the processed ones.
IterationFailed(outcome) ==
    outcome \in {"load_timeout", "empty_html", "unexpected", "fatal"}

C21Step ==
    /\ page_count' >= page_count
    /\ fetches' # fetches =>
            /\ fetches' = fetches + 1
            /\ page_count < MAX_PAGES
            /\ page_count' = page_count + 1
    /\ (fetches' # fetches /\ IterationFailed(last'.outcome)) =>
            /\ processed' = processed
            /\ MAX_PAGES - page_count' = MAX_PAGES - page_count - 1

\* C21: in every state the page counter equals the number of fetches issued
\* so far; every fetch, also one whose page times out, comes back empty or
\* raises, raises the counter by exactly one inside the budget, and the
\* counter never goes down, so a failed page uses up one unit of budget.
ThmC21_CounterCountsFetches ==
    /\ [](page_count = fetches)
    /\ [][C21Step]_vars

WitC21_FailuresExhaustBudget ==
    /\ Returned
    /\ MAX_PAGES = 3
    /\ page_count = 3
    /\ Len(processed) = 1
    /\ IterationFailed(last.outcome)
    /\ last.outcome # "fatal"
    /\ log.reason = "budget_exhausted"

\* The call of save_to_csv with records is followed by the call of
\* save_to_json, whatever the tabular write did.
C22DocumentAttempted ==
    (pc = "returned" /\ HasData(scraped_data)) => pc' = "csv_saved"

\* The call of save_to_json leaves the tabular file as it was and is
\* followed by the finally clause.
C22TabularKept ==
    pc = "csv_saved" => (fs'.csv = fs.csv /\ pc' = "finally")

\* A run with records that is done has quit its session.
C22Released ==
    (pc = "done" /\ HasData(scraped_data)) => (quit_calls = 1 /\ driver = None)

\* C22: for a run with records, a failure inside save_to_csv stays inside
\* it: save_to_json is called next, the finally clause quits the session and
\* main ends; a failure inside save_to_json leaves the tabular file alone.
C22_SinkFailureContained ==
    /\ [][C22DocumentAttempted /\ C22TabularKept]_vars
    /\ []C22Released

====
